---- MODULE Spec2Model ----
(***************************************************************************)
(* A model of the LLM pipeline of rss-feed-monitor:                        *)
(*   - filter_stories        (src/src/llm_filter.py)                       *)
(*   - group_and_summarize   (src/src/summarizer.py)                       *)
(*   - filter_stories_with_reasoning (src/src/llm_filter.py), ReasoningSpec*)
(*   - ArticleHistory        (src/src/article_history.py), HistorySpec     *)
(*   - main                  (src/src/main.py), MainSpec                   *)
(*   - run_scheduler         (src/src/scheduler.py), SchedulerSpec         *)
(*   - the model requests of one run, start and end apart, RequestSpec     *)
(* Each function is a state machine of its own (FilterSpec, GroupSpec);    *)
(* one action is one iteration of a loop of the function, the outcome of   *)
(* the model call of that iteration being the action's input.              *)
(*                                                                         *)
(* Text that the code inspects character by character (a filter answer)    *)
(* is a sequence of one-character strings.  Text that the code only        *)
(* formats, trims and cleans (topic names, summaries) is a sequence of     *)
(* tokens; the token "\n" is a line break and " " a blank.                 *)
(***************************************************************************)
EXTENDS Integers, Sequences, FiniteSets, TLC

VARIABLES
    \* ---- filter_stories ----
    fpc,                \* "idle" | "loop" | "done" | "raised"
    verbose,            \* the verbose parameter
    fArticles,          \* the articles parameter
    fi,                 \* number of articles the loop has gone through
    filtered_articles,  \* the result list
    answers,            \* per iteration, what the model call did (the log)
    fCalls,             \* per model call, the title of the article it asked about
    \* ---- group_and_summarize ----
    gpc,                \* "idle" | "group" | "summarize" | "returned" | "raised"
    articles,           \* the articles parameter
    chunk_index,        \* 0-based index of the next chunk
    all_topics,         \* the accumulated topics, groups["topics"] later on
    topic_pos,          \* 1-based position of the next topic to summarize
    groupLog,           \* per chunk, the outcome of its grouping call
    sumLog,             \* per topic visited, the outcome of its summary
    \* ---- filter_stories_with_reasoning ----
    rpc,                \* "idle" | "called" | "returned"
    rresult,            \* the value the function returned
    \* ---- ArticleHistory ----
    now,                \* datetime.now(), in half days
    retention_days,     \* the retention_days parameter
    hfile,              \* the history file
    hist,               \* self.history of each ArticleHistory object
    hCalls,             \* the number of method calls made on the objects
    hLast,              \* the last method called: "none" | "load" | "mark" | "filter"
    hWho,               \* the object of the last method call
    hIn,                \* the argument of the last filter_published
    hOut,               \* the result of the last filter_published
    hMarks,             \* the mark_as_published calls made, in order
    \* ---- main ----
    mpc,                \* "idle" | "config" | "fetch" | "filter" | "group" |
                        \* "output" | "done" | "raised"
    cfg,                \* .env, the command line and the optional modules
    mArticles,          \* articles
    mFiltered,          \* filtered_articles
    mSummary,           \* summary: the articles it was made of
    mStages,            \* the stages and sinks that ran, in order
    \* ---- run_scheduler ----
    spc,                \* "idle" | "start" | "loop" | "waiting" | "sleeping" |
                        \* "stopped" | "crashed"
    sInterval,          \* where the interval comes from
    sRunning,           \* pipeline subprocesses that have not exited
    sExit,              \* exit status of the subprocess: "none" | "ok" | "nonzero"
    sEvents,            \* what the scheduler did, in order
    \* ---- the model requests of one pipeline run ----
    qpc,                \* "idle" | "filter" | "group" | "summarize" | "done"
    qAt,                \* "loop": between calls, "call": inside create(...)
    qTodo,              \* iterations the current loop still has to make
    qKept,              \* articles the filter has kept
    qInflight,          \* requests sent and not yet answered
    qEvents             \* starts and ends of the requests, in order

fvars == <<fpc, verbose, fArticles, fi, filtered_articles, answers, fCalls>>
gvars == <<gpc, articles, chunk_index, all_topics, topic_pos, groupLog, sumLog>>
rvars == <<rpc, rresult>>
hvars == <<now, retention_days, hfile, hist, hCalls, hLast, hWho, hIn, hOut, hMarks>>
mvars == <<mpc, cfg, mArticles, mFiltered, mSummary, mStages>>
svars == <<spc, sInterval, sRunning, sExit, sEvents>>
qvars == <<qpc, qAt, qTodo, qKept, qInflight, qEvents>>
vars == <<fpc, verbose, fArticles, fi, filtered_articles, answers, fCalls,
          gpc, articles, chunk_index, all_topics, topic_pos, groupLog, sumLog,
          rpc, rresult,
          now, retention_days, hfile, hist, hCalls, hLast, hWho, hIn, hOut, hMarks,
          mpc, cfg, mArticles, mFiltered, mSummary, mStages,
          spc, sInterval, sRunning, sExit, sEvents,
          qpc, qAt, qTodo, qKept, qInflight, qEvents>>

\* What the steps of each component leave alone.
fOthers == <<gvars, rvars, hvars, mvars, svars, qvars>>
gOthers == <<fvars, rvars, hvars, mvars, svars, qvars>>
rOthers == <<fvars, gvars, hvars, mvars, svars, qvars>>
hOthers == <<fvars, gvars, rvars, mvars, svars, qvars>>
mOthers == <<fvars, gvars, rvars, hvars, svars, qvars>>
sOthers == <<fvars, gvars, rvars, hvars, mvars, qvars>>
qOthers == <<fvars, gvars, rvars, hvars, mvars, svars>>

\* ------------------------------------------------------------------ bounds
MaxFilterArticles == 7
MaxArticles == 12

\* ------------------------------------------------------------- sequences
Range(s) == {s[i] : i \in DOMAIN s}

\* SubSeq that is empty when the slice is empty, like a Python slice.
Slice(s, from, to) == IF from > to THEN <<>> ELSE SubSeq(s, from, to)

Min(a, b) == IF a < b THEN a ELSE b

\* ------------------------------------------------------- character text
UpperCase == <<"A","B","C","D","E","F","G","H","I","J","K","L","M",
               "N","O","P","Q","R","S","T","U","V","W","X","Y","Z">>
LowerCase == <<"a","b","c","d","e","f","g","h","i","j","k","l","m",
               "n","o","p","q","r","s","t","u","v","w","x","y","z">>

LowerChar(c) ==
    IF \E k \in DOMAIN UpperCase : UpperCase[k] = c
    THEN LowerCase[CHOOSE k \in DOMAIN UpperCase : UpperCase[k] = c]
    ELSE c

\* str.lower()
Lower(s) == [i \in DOMAIN s |-> LowerChar(s[i])]

\* sub in s
Contains(sub, s) ==
    \E k \in 0..(Len(s) - Len(sub)) : SubSeq(s, k + 1, k + Len(sub)) = sub

IsSpace(c) == c \in {" ", "\n", "\t"}

\* str.strip()
Strip(s) ==
    LET keep == {i \in DOMAIN s : ~IsSpace(s[i])}
    IN  IF keep = {} THEN <<>>
        ELSE LET lo == CHOOSE i \in keep : \A j \in keep : i <= j
                 hi == CHOOSE i \in keep : \A j \in keep : j <= i
             IN  SubSeq(s, lo, hi)

YesText == <<"y","e","s">>
NoText == <<"n","o">>
DecisionYes == <<"d","e","c","i","s","i","o","n",":"," ","y","e","s">>
DecisionNo == <<"d","e","c","i","s","i","o","n",":"," ","n","o">>

\* ------------------------------------------------------------- articles
Article(i) ==
    [title   |-> "title" \o ToString(i),
     link    |-> "link" \o ToString(i),
     summary |-> "summary" \o ToString(i)]

ArticleList(n) == [i \in 1..n |-> Article(i)]

\* ================================================================ filter
\* What a model call of the filter can do: raise, or return one of these
\* texts (message.content).
RAISED == <<"<exception>">>

FilterAnswers ==
    { <<"Y","e","s">>,
      <<" ","N","o","\n">>,
      <<"y","e","s",";"," ","D","E","C","I","S","I","O","N",":"," ","N","o">> }

\* Decision that searches the whole answer for "yes" in verbose mode too.
DecisionIgnoresMarker(v, answer) == Lower(answer)

\* Decision with an exact comparison in place of the substring search.
DecisionExact(v, answer) ==
    IF Lower(answer) = YesText THEN YesText ELSE NoText

\* Decision whose verbose branch has no fallback: an answer without a marker
\* is a "no".
DecisionMarkerOnly(v, answer) ==
    IF v
    THEN IF Contains(DecisionYes, Lower(answer)) THEN YesText ELSE NoText
    ELSE Lower(answer)

\* llm_filter.py 78-96: the decision text taken from the stripped answer.
Decision(v, answer) ==
    IF v
    THEN LET decision_lower == Lower(answer)
         IN  IF Contains(DecisionYes, decision_lower) THEN YesText
             ELSE IF Contains(DecisionNo, decision_lower) THEN NoText
             ELSE IF Contains(YesText, decision_lower) THEN YesText ELSE NoText
    ELSE Lower(answer)

\* Classify inserting at the front of the result.
ClassifyPrepend(result, article, decision) ==
    IF Contains(YesText, decision) THEN <<article>> \o result ELSE result

\* llm_filter.py 98-99: the article is appended iff "yes" in decision.
Classify(result, article, decision) ==
    IF Contains(YesText, decision) THEN Append(result, article) ELSE result

FilterIdle ==
    /\ fpc = "idle"
    /\ verbose = FALSE
    /\ fArticles = <<>>
    /\ fi = 0
    /\ filtered_articles = <<>>
    /\ answers = <<>>
    /\ fCalls = <<>>

FilterInit ==
    /\ fpc = "loop"
    /\ verbose \in BOOLEAN
    /\ fArticles \in {ArticleList(n) : n \in 0..MaxFilterArticles}
    /\ fi = 0
    /\ filtered_articles = <<>>
    /\ answers = <<>>
    /\ fCalls = <<>>

\* One iteration of the loop whose call returns one of the texts of `menu`.
FilterIteration(menu) ==
    /\ fpc = "loop"
    /\ fi < Len(fArticles)
    /\ \E content \in menu :
         LET answer == Strip(content)
         IN  /\ filtered_articles' =
                    Classify(filtered_articles, fArticles[fi + 1],
                             Decision(verbose, answer))
             /\ answers' = Append(answers, content)
    /\ fCalls' = Append(fCalls, fArticles[fi + 1].title)
    /\ fi' = fi + 1
    /\ UNCHANGED <<fpc, verbose, fArticles>>
    /\ UNCHANGED fOthers

FilterCallReturns == FilterIteration(FilterAnswers)

\* FilterCallRaises without the try/except: the exception leaves the function.
FilterCallRaisesAborts ==
    /\ fpc = "loop"
    /\ fi < Len(fArticles)
    /\ answers' = Append(answers, RAISED)
    /\ fCalls' = Append(fCalls, fArticles[fi + 1].title)
    /\ fpc' = "raised"
    /\ UNCHANGED <<verbose, fArticles, fi, filtered_articles>>
    /\ UNCHANGED fOthers

\* FilterCallRaises keeping the article when its call fails (fail-open).
FilterCallRaisesIncludes ==
    /\ fpc = "loop"
    /\ fi < Len(fArticles)
    /\ answers' = Append(answers, RAISED)
    /\ fCalls' = Append(fCalls, fArticles[fi + 1].title)
    /\ filtered_articles' = Append(filtered_articles, fArticles[fi + 1])
    /\ fi' = fi + 1
    /\ UNCHANGED <<fpc, verbose, fArticles>>
    /\ UNCHANGED fOthers

\* FilterCallRaises that calls again for the same article.
FilterCallRaisesRetries ==
    /\ fpc = "loop"
    /\ fi < Len(fArticles)
    /\ fCalls' = Append(fCalls, fArticles[fi + 1].title)
    /\ UNCHANGED <<fpc, verbose, fArticles, fi, filtered_articles, answers>>
    /\ UNCHANGED fOthers

\* One iteration of the loop whose call raises: except Exception, log, go on.
FilterCallRaises ==
    /\ fpc = "loop"
    /\ fi < Len(fArticles)
    /\ answers' = Append(answers, RAISED)
    /\ fCalls' = Append(fCalls, fArticles[fi + 1].title)
    /\ fi' = fi + 1
    /\ UNCHANGED <<fpc, verbose, fArticles, filtered_articles>>
    /\ UNCHANGED fOthers

\* return filtered_articles
FilterReturn ==
    /\ fpc = "loop"
    /\ fi = Len(fArticles)
    /\ fpc' = "done"
    /\ UNCHANGED <<verbose, fArticles, fi, filtered_articles, answers, fCalls>>
    /\ UNCHANGED fOthers

\* ------------------------------------------- filter_stories_with_reasoning
MaxReasoningArticles == 4

\* Answers of a model that was asked for its reasoning and a DECISION line.
ReasoningAnswers ==
    { <<"y","e","s"," ","i","f",".","\n","D","E","C","I","S","I","O","N",":"," ","N","o">>,
      <<"N","o","t"," ","a","l","l",".","\n","d","e","c","i","s","i","o","n",":"," ","Y","E","S">>,
      <<"D","e","c","i","s","i","o","n",":"," ","Y","e","s",";"," ","n","o","t"," ",
        "D","E","C","I","S","I","O","N",":"," ","N","o">>,
      <<"Y","e","s",".">>,
      <<"N","o",".">> }

\* A Python list returned to the caller.
PyList(items) == [type |-> "list", items |-> items]
NotReturned == [type |-> "none", items |-> <<>>]

ReasoningIdle ==
    /\ rpc = "idle"
    /\ rresult = NotReturned

\* filter_stories_with_reasoning(articles, ...) calls
\* filter_stories(articles, ..., verbose=True).
ReasoningInit ==
    /\ rpc = "called"
    /\ rresult = NotReturned
    /\ fpc = "loop"
    /\ verbose = TRUE
    /\ fArticles \in {ArticleList(n) : n \in 0..MaxReasoningArticles}
    /\ fi = 0
    /\ filtered_articles = <<>>
    /\ answers = <<>>
    /\ fCalls = <<>>

ReasoningCallReturns == rpc = "called" /\ FilterIteration(ReasoningAnswers)

\* llm_filter.py 127: the value of the inner call is returned as it is.
ReasoningReturn ==
    /\ rpc = "called"
    /\ fpc = "done"
    /\ rpc' = "returned"
    /\ rresult' = PyList(filtered_articles)
    /\ UNCHANGED rOthers

\* ========================================================= ArticleHistory
MaxClock == 2           \* the clock stops here
MaxHistoryCalls == 2    \* method calls on the objects after their construction
DayTicks == 2           \* clock ticks in one day

\* The ArticleHistory objects that share the history file.
Runs == {1, 2}
RetentionChoices == {0, 1}

\* An article dictionary with the keys `fields`.
HArticle(fields, title, link) == [fields |-> fields, title |-> title, link |-> link]
P1 == HArticle({"title", "link"}, "title1", "link1")
P1Retitled == HArticle({"title", "link"}, "other title", "link1")
P2 == HArticle({"title", "link"}, "title2", "link2")
PEmptyLink == HArticle({"title", "link"}, "title3", "")
PNoLink == HArticle({"title"}, "title4", "")

\* The article lists the methods are called with.
HistoryInputs ==
    { <<P1>>,
      <<PEmptyLink, P1Retitled, PNoLink, P2>> }

\* article.get(key, "")
Get(article, key) == IF key \in article.fields THEN article[key] ELSE ""

\* The history file: absent, unreadable, or the JSON of a history.
Missing == [state |-> "missing", last_cleaned |-> 0, articles |-> {}]
Corrupt == [state |-> "corrupt", last_cleaned |-> 0, articles |-> {}]
Json(h) == [state |-> "json", last_cleaned |-> h.last_cleaned, articles |-> h.articles]

\* self.history: last_cleaned and the articles dictionary, an entry of the
\* dictionary being its key (url) with the title and the timestamp stored.
History(last_cleaned, entries) ==
    [state |-> "loaded", last_cleaned |-> last_cleaned, articles |-> entries]
Unloaded == [state |-> "unloaded", last_cleaned |-> 0, articles |-> {}]

Keys(h) == {e.url : e \in h.articles}

\* _load_history
LoadHistory(file, t) ==
    IF file.state = "json" THEN History(file.last_cleaned, file.articles)
    ELSE History(t, {})

\* self.history["articles"][url] = {...}
Put(entries, e) == {x \in entries : x.url # e.url} \cup {e}

\* mark_as_published 95-101
RECURSIVE MarkAll(_, _, _)
MarkAll(entries, list, t) ==
    IF list = <<>> THEN entries
    ELSE LET url == Get(Head(list), "link")
         IN  MarkAll(IF url # ""
                     THEN Put(entries, [url |-> url, title |-> Get(Head(list), "title"),
                                        timestamp |-> t])
                     ELSE entries,
                     Tail(list), t)

\* The links mark_as_published(list) stores: those that are not empty (96).
Links(list) == {Get(list[i], "link") : i \in DOMAIN list} \ {""}

\* _clean_old_entries 55-56: cleaning is due
CleanDue(h, t) == ~(t - h.last_cleaned < DayTicks)

\* _clean_old_entries 49, 58-66. The clock is read again here (49), after
\* mark_as_published read it (93) and wrote the file: later says that this
\* reading is past the time of day of the entries written days ago to the
\* half day, so that these entries are older than the cutoff.
Cleaned(h, t, days, later) ==
    History(t, {e \in h.articles :
                   \/ e.timestamp > t - days * DayTicks
                   \/ e.timestamp = t - days * DayTicks /\ ~later})

\* _save_history: the file after a save that succeeds (ok) or fails
Saved(file, h, ok) == IF ok THEN Json(h) ELSE file

\* is_published matching on the link and the title.
IsPublishedSameTitle(h, article) ==
    \E e \in h.articles : e.url = Get(article, "link") /\ e.title = Get(article, "title")

\* is_published
IsPublished(h, article) == Get(article, "link") \in Keys(h)

\* filter_published
Unpublished(h, list) == SelectSeq(list, LAMBDA a : ~IsPublished(h, a))

HistoryIdle ==
    /\ now = 0
    /\ retention_days = 0
    /\ hfile = Missing
    /\ hist = [r \in Runs |-> Unloaded]
    /\ hCalls = 0
    /\ hLast = "none"
    /\ hWho = 1
    /\ hIn = <<>>
    /\ hOut = <<>>
    /\ hMarks = <<>>

HistoryInit ==
    /\ now = 0
    /\ retention_days \in RetentionChoices
    /\ hfile \in {Missing, Corrupt}
    /\ hist = [r \in Runs |-> Unloaded]
    /\ hCalls = 0
    /\ hLast = "none"
    /\ hWho = 1
    /\ hIn = <<>>
    /\ hOut = <<>>
    /\ hMarks = <<>>

\* Time passes.
Tick ==
    /\ now < MaxClock
    /\ now' = now + 1
    /\ UNCHANGED <<retention_days, hfile, hist, hCalls, hLast, hWho, hIn, hOut, hMarks>>
    /\ UNCHANGED hOthers

\* ArticleHistory(...)
Load(r) ==
    /\ hist[r].state = "unloaded"
    /\ hist' = [hist EXCEPT ![r] = LoadHistory(hfile, now)]
    /\ hLast' = "load"
    /\ hWho' = r
    /\ UNCHANGED <<now, retention_days, hfile, hCalls, hIn, hOut, hMarks>>
    /\ UNCHANGED hOthers

\* mark_as_published(list): update, save, clean when due, save again.
MarkAsPublished(r, list) ==
    /\ hist[r].state = "loaded"
    /\ hCalls < MaxHistoryCalls
    /\ \E ok1 \in BOOLEAN, ok2 \in BOOLEAN, later \in BOOLEAN :
         LET marked == History(hist[r].last_cleaned, MarkAll(hist[r].articles, list, now))
             file1 == Saved(hfile, marked, ok1)
             cleaned == Cleaned(marked, now, retention_days, later)
         IN  IF CleanDue(marked, now)
             THEN /\ hist' = [hist EXCEPT ![r] = cleaned]
                  /\ hfile' = Saved(file1, cleaned, ok2)
                  /\ hMarks' = Append(hMarks, [who |-> r, links |-> Links(list), saved |-> ok2])
             ELSE /\ hist' = [hist EXCEPT ![r] = marked]
                  /\ hfile' = file1
                  /\ hMarks' = Append(hMarks, [who |-> r, links |-> Links(list), saved |-> ok1])
    /\ hCalls' = hCalls + 1
    /\ hLast' = "mark"
    /\ hWho' = r
    /\ UNCHANGED <<now, retention_days, hIn, hOut>>
    /\ UNCHANGED hOthers

\* filter_published(list)
FilterPublished(r, list) ==
    /\ hist[r].state = "loaded"
    /\ hCalls < MaxHistoryCalls
    /\ hIn' = list
    /\ hOut' = Unpublished(hist[r], list)
    /\ hCalls' = hCalls + 1
    /\ hLast' = "filter"
    /\ hWho' = r
    /\ UNCHANGED <<now, retention_days, hfile, hist, hMarks>>
    /\ UNCHANGED hOthers

\* ================================================================== main
MaxFetched == 2     \* articles a fetch yields at most

OutputModes == {"console", "web", "slack", "email"}

\* What main reads: OPENAI_API_KEY and FILTER_PROMPT set or not, --output,
\* --web-server, which optional modules were imported, and whether the
\* chosen sink's settings are in .env.
Configs ==
    [api_key : BOOLEAN, filter_prompt : BOOLEAN, output : OutputModes,
     web_server : BOOLEAN, slack_module : BOOLEAN, email_module : BOOLEAN,
     web_module : BOOLEAN, sink_settings : BOOLEAN]

NoConfig ==
    [api_key |-> FALSE, filter_prompt |-> FALSE, output |-> "console",
     web_server |-> FALSE, slack_module |-> FALSE, email_module |-> FALSE,
     web_module |-> FALSE, sink_settings |-> FALSE]

\* fetch_feeds(rss_feed_list)
FeedResults == {ArticleList(n) : n \in 0..MaxFetched}

\* The lists filter_stories can return for `list`: it keeps input order.
Selections(list) ==
    {SelectSeq(list, LAMBDA a : a \in keep) : keep \in SUBSET Range(list)}

\* A history file written by an earlier mark_as_published([article1]).
StoreWithLink1 ==
    Json(History(0, {[url |-> "link1", title |-> "title1", timestamp |-> 0]}))

MainIdle ==
    /\ mpc = "idle"
    /\ cfg = NoConfig
    /\ mArticles = <<>>
    /\ mFiltered = <<>>
    /\ mSummary = <<>>
    /\ mStages = <<>>

MainInit ==
    /\ mpc = "config"
    /\ cfg \in Configs
    /\ mArticles = <<>>
    /\ mFiltered = <<>>
    /\ mSummary = <<>>
    /\ mStages = <<>>
    /\ now = 0
    /\ retention_days = 0
    /\ hfile \in {Missing, StoreWithLink1}
    /\ hist = [r \in Runs |-> Unloaded]
    /\ hCalls = 0
    /\ hLast = "none"
    /\ hWho = 1
    /\ hIn = <<>>
    /\ hOut = <<>>
    /\ hMarks = <<>>

MainStep(pc, stages) ==
    /\ mpc' = pc
    /\ mStages' = mStages \o stages
    /\ UNCHANGED cfg
    /\ UNCHANGED mOthers

\* main.py 68-70: no API key, log and return.
MainNoKey ==
    /\ mpc = "config"
    /\ ~cfg.api_key
    /\ MainStep("done", <<>>)
    /\ UNCHANGED <<mArticles, mFiltered, mSummary>>

\* main.py 73-76: --web-server runs the dashboard only.
MainDashboardOnly ==
    /\ mpc = "config"
    /\ cfg.api_key
    /\ cfg.web_server /\ cfg.web_module
    /\ MainStep("done", <<"dashboard">>)
    /\ UNCHANGED <<mArticles, mFiltered, mSummary>>

\* main.py 62-77: the configuration is read and the run goes on.
MainConfigChecked ==
    /\ mpc = "config"
    /\ cfg.api_key
    /\ ~(cfg.web_server /\ cfg.web_module)
    /\ MainStep("fetch", <<>>)
    /\ UNCHANGED <<mArticles, mFiltered, mSummary>>

\* main.py 80
MainFetch ==
    /\ mpc = "fetch"
    /\ mArticles' \in FeedResults
    /\ MainStep("filter", <<"fetch">>)
    /\ UNCHANGED <<mFiltered, mSummary>>

\* main.py 85: filter_stories(articles, filter_prompt, ...)
MainFilter ==
    /\ mpc = "filter"
    /\ mFiltered' \in Selections(mArticles)
    /\ MainStep("group", <<"filter">>)
    /\ UNCHANGED <<mArticles, mSummary>>

\* main.py 90: group_and_summarize(filtered_articles, ...) returns
MainGroup ==
    /\ mpc = "group"
    /\ mSummary' = mFiltered
    /\ MainStep("output", <<"group">>)
    /\ UNCHANGED <<mArticles, mFiltered>>

\* main.py 90: group_and_summarize raises (SummarizeRaises), main does not catch
MainGroupRaises ==
    /\ mpc = "group"
    /\ mFiltered # <<>>
    /\ MainStep("raised", <<"group">>)
    /\ UNCHANGED <<mArticles, mFiltered, mSummary>>

\* main.py 93-154: what the chosen output does with the summary.
SinkStages ==
    CASE cfg.output = "console" -> <<"console">>
      [] cfg.output = "web" ->
            IF cfg.web_module THEN <<"console", "web_store", "dashboard">>
            ELSE <<"console">>
      [] cfg.output = "slack" ->
            IF cfg.slack_module /\ cfg.sink_settings THEN <<"slack">> ELSE <<>>
      [] cfg.output = "email" ->
            IF cfg.email_module /\ cfg.sink_settings THEN <<"email">> ELSE <<>>

MainOutput ==
    /\ mpc = "output"
    /\ MainStep("done", SinkStages)
    /\ UNCHANGED <<mArticles, mFiltered, mSummary>>

\* ========================================================== run_scheduler
MaxTicks == 3       \* ticks the scheduler makes at most

\* Where the interval comes from: the parameter, PROCESS_INTERVAL of .env,
\* the default, or a PROCESS_INTERVAL that int() rejects.
IntervalSources == {"parameter", "env", "default", "not_a_number"}

\* The ticks started so far.
Ticks == Cardinality({p \in DOMAIN sEvents : sEvents[p] \in {"run", "launch_error"}})

SchedulerIdle ==
    /\ spc = "idle"
    /\ sInterval = "default"
    /\ sRunning = 0
    /\ sExit = "none"
    /\ sEvents = <<>>

SchedulerInit ==
    /\ spc = "start"
    /\ sInterval \in IntervalSources
    /\ sRunning = 0
    /\ sExit = "none"
    /\ sEvents = <<>>

SchedulerStep(pc, events) ==
    /\ spc' = pc
    /\ sEvents' = sEvents \o events
    /\ UNCHANGED sInterval
    /\ UNCHANGED sOthers

\* scheduler.py 19-29: int(...) of a bad PROCESS_INTERVAL raises.
ReadInterval ==
    /\ spc = "start"
    /\ SchedulerStep(IF sInterval = "not_a_number" THEN "crashed" ELSE "loop", <<>>)
    /\ UNCHANGED <<sRunning, sExit>>

\* Launch that does not wait for the subprocess.
LaunchDetached ==
    /\ spc = "loop"
    /\ Ticks < MaxTicks
    /\ sRunning' = sRunning + 1
    /\ sExit' = "none"
    /\ SchedulerStep("sleeping", <<"run", "ok">>)

\* scheduler.py 36-37: subprocess.run starts main.py and waits for it.
Launch ==
    /\ spc = "loop"
    /\ Ticks < MaxTicks
    /\ sRunning' = sRunning + 1
    /\ sExit' = "none"
    /\ SchedulerStep("waiting", <<"run">>)

\* scheduler.py 37, 41-49: subprocess.run raises before a process exists;
\* the exception is logged and the sleep begins.
LaunchFails ==
    /\ spc = "loop"
    /\ Ticks < MaxTicks
    /\ SchedulerStep("sleeping", <<"launch_error">>)
    /\ UNCHANGED <<sRunning, sExit>>

\* The subprocess exits with status 0 or with another status.
ChildExits ==
    /\ sRunning > 0
    /\ sExit = "none"
    /\ sRunning' = sRunning - 1
    /\ sExit' \in {"ok", "nonzero"}
    /\ SchedulerStep(spc, <<>>)

\* RunReturns letting CalledProcessError leave the loop.
RunReturnsPropagates ==
    /\ spc = "waiting"
    /\ sExit # "none"
    /\ sExit' = "none"
    /\ IF sExit = "ok" THEN SchedulerStep("sleeping", <<"ok">>)
       ELSE SchedulerStep("crashed", <<"failed">>)
    /\ UNCHANGED sRunning

\* scheduler.py 37-49: subprocess.run returns or raises CalledProcessError
\* (check=True), which is logged; then the sleep begins.
RunReturns ==
    /\ spc = "waiting"
    /\ sExit # "none"
    /\ sExit' = "none"
    /\ SchedulerStep("sleeping", <<IF sExit = "ok" THEN "ok" ELSE "failed">>)
    /\ UNCHANGED sRunning

\* scheduler.py 37: KeyboardInterrupt inside subprocess.run is no Exception;
\* subprocess.run kills the child and the interrupt leaves run_scheduler.
RunInterrupted ==
    /\ spc = "waiting"
    /\ sRunning' = 0
    /\ sExit' = "none"
    /\ SchedulerStep("crashed", <<"interrupt_in_run">>)

\* scheduler.py 49: time.sleep(interval * 60) returns
SleepEnds ==
    /\ spc = "sleeping"
    /\ SchedulerStep("loop", <<"slept">>)
    /\ UNCHANGED <<sRunning, sExit>>

\* scheduler.py 50-52: KeyboardInterrupt during the sleep, break
SleepInterrupted ==
    /\ spc = "sleeping"
    /\ SchedulerStep("stopped", <<"interrupt">>)
    /\ UNCHANGED <<sRunning, sExit>>

\* ======================================================= group_and_summarize
ChunkSize == 10     \* chunk_articles(articles, 10)

\* ------------------------------------- the model requests of a pipeline run
\* main.py 85-90: filter_stories, then group_and_summarize on what it kept.
\* Here a call of client.chat.completions.create is two steps, its start and
\* its end, and the loops are counted, not spelled out.
MaxRequestArticles == 11
MaxRequestTopics == 2

RequestIdle ==
    /\ qpc = "idle"
    /\ qAt = "loop"
    /\ qTodo = 0
    /\ qKept = 0
    /\ qInflight = 0
    /\ qEvents = <<>>

RequestInit ==
    /\ qpc = "filter"
    /\ qAt = "loop"
    /\ qTodo \in 0..MaxRequestArticles
    /\ qKept = 0
    /\ qInflight = 0
    /\ qEvents = <<>>

\* RequestStarts that does not wait for the response.
RequestStartsAsync ==
    /\ qpc \in {"filter", "group", "summarize"}
    /\ qAt = "loop"
    /\ qTodo > 0
    /\ qTodo' = qTodo - 1
    /\ qInflight' = qInflight + 1
    /\ qEvents' = Append(qEvents, <<"start", qpc>>)
    /\ UNCHANGED <<qpc, qAt, qKept>>
    /\ UNCHANGED qOthers

\* llm_filter.py 61, summarizer.py 133 and 218: create(...) is entered.
RequestStarts ==
    /\ qpc \in {"filter", "group", "summarize"}
    /\ qAt = "loop"
    /\ qTodo > 0
    /\ qAt' = "call"
    /\ qInflight' = qInflight + 1
    /\ qEvents' = Append(qEvents, <<"start", qpc>>)
    /\ UNCHANGED <<qpc, qTodo, qKept>>
    /\ UNCHANGED qOthers

\* create(...) returns or raises; the rest of the iteration follows (the
\* filter keeps the article or not).
RequestEnds ==
    /\ qAt = "call"
    /\ qAt' = "loop"
    /\ qInflight' = qInflight - 1
    /\ qTodo' = qTodo - 1
    /\ qEvents' = Append(qEvents, <<"end", qpc>>)
    /\ \E kept \in {0, 1} : qKept' = IF qpc = "filter" THEN qKept + kept ELSE qKept
    /\ UNCHANGED qpc
    /\ UNCHANGED qOthers

\* summarizer.py 199-201: a topic without articles has no call.
TopicWithoutCall ==
    /\ qpc = "summarize"
    /\ qAt = "loop"
    /\ qTodo > 0
    /\ qTodo' = qTodo - 1
    /\ UNCHANGED <<qpc, qAt, qKept, qInflight, qEvents>>
    /\ UNCHANGED qOthers

\* The loop of a stage is over: filter_stories returns; the chunk loop ends
\* (no chunk at all when nothing was kept, summarizer.py 84-85); the topic
\* loop ends.
StageEnds ==
    /\ qAt = "loop"
    /\ qTodo = 0
    /\ \/ /\ qpc = "filter"
          /\ qpc' = IF qKept = 0 THEN "done" ELSE "group"
          /\ qTodo' = (qKept + ChunkSize - 1) \div ChunkSize
       \/ /\ qpc = "group"
          /\ qpc' = "summarize"
          /\ qTodo' \in 0..MaxRequestTopics
       \/ /\ qpc = "summarize"
          /\ qpc' = "done"
          /\ qTodo' = 0
    /\ UNCHANGED <<qAt, qKept, qInflight, qEvents>>
    /\ UNCHANGED qOthers

\* ---- JSON values as the code sees them ----
\* An entry of a topic's "articles": a JSON object with the keys `fields`, or
\* some other JSON value (kind "other": a number, a string, null, ...).
Entry(a) == [kind |-> "object", fields |-> {"title", "link"},
             title |-> a.title, link |-> a.link]
EntryWithSummary(a) == [kind |-> "object", fields |-> {"title", "link", "summary"},
                        title |-> a.title, link |-> a.link]
OtherEntry == [kind |-> "other", fields |-> {}, title |-> "", link |-> ""]
\* An entry whose title is the title of no input article.
GhostEntry == [kind |-> "object", fields |-> {"title", "link"},
               title |-> "ghost title", link |-> "ghost link"]

\* [{"title": a.get("title"), "link": a.get("link")} for a in article_chunk]
Pairs(chunk) == [i \in DOMAIN chunk |-> Entry(chunk[i])]

\* An element of "topics": a JSON object with the keys `fields`, or another value.
Topic(name, entries) ==
    [kind |-> "object", fields |-> {"topic", "articles"},
     topic |-> name, articles |-> entries, summary |-> <<>>]
OtherTopic == [kind |-> "other", fields |-> {}, topic |-> <<>>,
               articles |-> <<>>, summary |-> <<>>]

\* topic.get('topic') inside an f-string
TopicName(t) == IF "topic" \in t.fields THEN t.topic ELSE <<"None">>
\* topic.get("articles", [])
TopicArticles(t) == IF "articles" \in t.fields THEN t.articles ELSE <<>>

\* A parsed grouping response.  shape "object": a JSON object, `topics` being
\* what iterating over its .get("topics", []) yields; "not_object": .get
\* raises AttributeError; "topics_not_iterable": extend raises TypeError.
Parsed(shape, topics) == [shape |-> shape, topics |-> topics]

Fires == <<"Fires">>
FiresPadded == <<"Fires", " ">>
AirQuality == <<"Air", "\n", "Quality">>
Quakes == <<"Quakes">>

\* The responses json.loads accepts, for a chunk.
GroupParsedValues(chunk) ==
    { Parsed("object", <<Topic(Fires, Pairs(chunk))>>),
      Parsed("object", <<Topic(AirQuality, Pairs(chunk))>>),
      Parsed("object", <<Topic(Fires, Pairs(Slice(chunk, 1, 1))),
                         Topic(Quakes, Pairs(Slice(chunk, 2, Len(chunk))))>>),
      Parsed("object", <<Topic(Fires, Pairs(Slice(chunk, 2, Len(chunk))))>>),
      Parsed("object", <<Topic(Fires, [i \in DOMAIN chunk |-> EntryWithSummary(chunk[i])])>>),
      Parsed("object", <<>>),
      Parsed("object", <<Topic(FiresPadded, <<>>), Topic(Fires, Pairs(chunk))>>),
      Parsed("not_object", <<>>),
      Parsed("topics_not_iterable", <<>>),
      Parsed("object", <<OtherTopic, OtherTopic>>),
      Parsed("object", <<Topic(Quakes, <<OtherEntry>>)>>),
      Parsed("object", <<Topic(Quakes, <<GhostEntry>>)>>) }

\* The responses json.loads rejects and accepts once sanitize_json_string
\* has rewritten them (validate_json returns True, parsed).
GroupSanitizedValues(chunk) ==
    { Parsed("object", <<Topic(Quakes, Pairs(chunk))>>),
      Parsed("not_object", <<>>) }

\* ChunkOf with a slice that ends one article early.
ChunkOfShort(list, k) ==
    Slice(list, k * ChunkSize + 1, Min((k + 1) * ChunkSize - 1, Len(list)))

\* chunk_articles: the chunk with 0-based index k.
ChunkOf(list, k) == Slice(list, k * ChunkSize + 1, Min((k + 1) * ChunkSize, Len(list)))

\* range(0, len(articles_list), chunk_size): the number of chunks.
NumChunks(list) == (Len(list) + ChunkSize - 1) \div ChunkSize

\* FallbackTopic numbered from 0.
FallbackTopicZeroBased(k, chunk) == Topic(<<"Articles Group ", ToString(k)>>, Pairs(chunk))

\* summarizer.py 161-164, 170-173
FallbackTopic(k, chunk) == Topic(<<"Articles Group ", ToString(k + 1)>>, Pairs(chunk))

\* Contribution that takes the topics of any parsed value and never falls back.
ContributionUnchecked(v, k, chunk) == v.topics

\* summarizer.py 151, 157 inside the outer try: what the parsed value v adds.
Contribution(v, k, chunk) ==
    IF v.shape = "object" THEN v.topics ELSE <<FallbackTopic(k, chunk)>>

\* chunk: the articles the call's prompt lists (article_chunk).
LogGroup(stage, added) ==
    Append(groupLog, [stage |-> stage, first |-> Len(all_topics) + 1, count |-> Len(added),
                      chunk |-> ChunkOf(articles, chunk_index)])

\* GroupStep leaving the chunk loop after its first iteration.
GroupStepOneChunk(stage, added) ==
    /\ all_topics' = all_topics \o added
    /\ groupLog' = LogGroup(stage, added)
    /\ chunk_index' = chunk_index + 1
    /\ gpc' = "summarize"
    /\ UNCHANGED <<articles, topic_pos, sumLog>>
    /\ UNCHANGED gOthers

\* The state after one iteration of the chunk loop that adds `added`.
GroupStep(stage, added) ==
    /\ all_topics' = all_topics \o added
    /\ groupLog' = LogGroup(stage, added)
    /\ chunk_index' = chunk_index + 1
    /\ gpc' = IF chunk_index + 1 < NumChunks(articles) THEN "group" ELSE "summarize"
    /\ UNCHANGED <<articles, topic_pos, sumLog>>
    /\ UNCHANGED gOthers

GroupIdle ==
    /\ gpc = "idle"
    /\ articles = <<>>
    /\ chunk_index = 0
    /\ all_topics = <<>>
    /\ topic_pos = 1
    /\ groupLog = <<>>
    /\ sumLog = <<>>

GroupInit ==
    /\ gpc = "group"
    /\ articles \in {ArticleList(n) : n \in 0..MaxArticles}
    /\ chunk_index = 0
    /\ all_topics = <<>>
    /\ topic_pos = 1
    /\ groupLog = <<>>
    /\ sumLog = <<>>

\* if not articles: return {"topics": []}
ReturnEmpty ==
    /\ gpc = "group"
    /\ articles = <<>>
    /\ gpc' = "returned"
    /\ UNCHANGED <<articles, chunk_index, all_topics, topic_pos, groupLog, sumLog>>
    /\ UNCHANGED gOthers

\* The grouping call returns text that json.loads accepts.
GroupParsed ==
    /\ gpc = "group"
    /\ articles # <<>>
    /\ \E v \in GroupParsedValues(ChunkOf(articles, chunk_index)) :
         GroupStep("parsed", Contribution(v, chunk_index, ChunkOf(articles, chunk_index)))

\* json.loads rejects the text, validate_json repairs it.
GroupSanitized ==
    /\ gpc = "group"
    /\ articles # <<>>
    /\ \E v \in GroupSanitizedValues(ChunkOf(articles, chunk_index)) :
         GroupStep("sanitized", Contribution(v, chunk_index, ChunkOf(articles, chunk_index)))

\* json.loads rejects the text and validate_json returns False.
GroupUnparseable ==
    /\ gpc = "group"
    /\ articles # <<>>
    /\ GroupStep("unparseable", <<FallbackTopic(chunk_index, ChunkOf(articles, chunk_index))>>)

\* The grouping call raises.
GroupCallFails ==
    /\ gpc = "group"
    /\ articles # <<>>
    /\ GroupStep("call_failed", <<FallbackTopic(chunk_index, ChunkOf(articles, chunk_index))>>)

\* ---- summarization pass ----
\* What the summarization call can return (message.content).
SummaryTexts ==
    { <<"Crews", " ", "contain", " ", "fire.">>,
      <<"*", "*", "Summary:", " ", "Crews", "\n", "\n", "contain", " ", "fire.", "\n">>,
      <<" ", "\n">> }

Markup == {"#", "*", "\"", " ", "\n", "\t"}
Labels == {"Summary:", "Topic:", "Articles:"}

RECURSIVE DropSpaces(_)
DropSpaces(text) ==
    IF text # <<>> /\ IsSpace(Head(text)) THEN DropSpaces(Tail(text)) ELSE text

RECURSIVE DropMarkup(_)
DropMarkup(text) ==
    IF text # <<>> /\ Head(text) \in Markup THEN DropMarkup(Tail(text)) ELSE text

\* re.sub(r'^[#*"\s]*(Summary:|Topic:|Articles:)\s*', '', text)
StripLabel(text) ==
    LET rest == DropMarkup(text)
    IN  IF rest # <<>> /\ Head(rest) \in Labels THEN DropSpaces(Tail(rest)) ELSE text

\* re.sub(r'\n+', ' ', text)
RECURSIVE JoinLines(_)
JoinLines(text) ==
    IF text = <<>> THEN <<>>
    ELSE IF Head(text) = "\n"
         THEN IF Len(text) > 1 /\ text[2] = "\n"
              THEN JoinLines(Tail(text))
              ELSE <<" ">> \o JoinLines(Tail(text))
         ELSE <<Head(text)>> \o JoinLines(Tail(text))

\* summarizer.py 235-236
CleanSummary(text) == JoinLines(StripLabel(text))

\* f"A collection of {len(articles_in_topic)} articles about {topic.get('topic')}."
FallbackSummary(t) ==
    <<"A collection of ", ToString(Len(TopicArticles(t))), " articles about ">>
        \o TopicName(t) \o <<".">>

\* summarizer.py 228-236: the summary made of the text the call returned.
SummaryOf(t, content) ==
    LET summary_text == Strip(content)
    IN  CleanSummary(IF summary_text = <<>> THEN FallbackSummary(t) ELSE summary_text)

\* topic["summary"] = text
SetSummary(t, text) ==
    [t EXCEPT !.fields = @ \cup {"summary"}, !.summary = text]

\* {"title": a.get("title", "Untitled"), "link": a.get("link", "#")}
TitleAndLink(a) ==
    [kind |-> "object", fields |-> {"title", "link"},
     title |-> IF "title" \in a.fields THEN a.title ELSE "Untitled",
     link |-> IF "link" \in a.fields THEN a.link ELSE "#"]

\* topic["articles"] = [... for a in articles_in_topic]
SetArticles(t) ==
    [t EXCEPT !.fields = @ \cup {"articles"},
              !.articles = [i \in DOMAIN TopicArticles(t) |-> TitleAndLink(TopicArticles(t)[i])]]

\* topic.get / article.get raise AttributeError on a value that is no object.
WellShaped(t) ==
    /\ t.kind = "object"
    /\ \A i \in DOMAIN TopicArticles(t) : TopicArticles(t)[i].kind = "object"

\* summarizer.py 187-196: the input article with the entry's title (the first
\* one), or a placeholder record made of the entry.
Resolve(a) ==
    LET hits == {i \in DOMAIN articles : "title" \in a.fields /\ articles[i].title = a.title}
    IN  IF hits # {}
        THEN articles[CHOOSE i \in hits : \A j \in hits : i <= j]
        ELSE [title   |-> IF "title" \in a.fields THEN a.title ELSE "",
              link    |-> IF "link" \in a.fields THEN a.link ELSE "",
              summary |-> "No detailed summary available."]

\* relevant_articles without the placeholder branch: matched entries only.
RelevantArticlesMatchedOnly(t) ==
    LET matched == SelectSeq(TopicArticles(t),
                       LAMBDA a : \E i \in DOMAIN articles :
                                     "title" \in a.fields /\ articles[i].title = a.title)
    IN  [i \in DOMAIN matched |-> Resolve(matched[i])]

\* relevant_articles
RelevantArticles(t) == [i \in DOMAIN TopicArticles(t) |-> Resolve(TopicArticles(t)[i])]

CurrentTopic == all_topics[topic_pos]

InTopicLoop == gpc = "summarize" /\ topic_pos <= Len(all_topics)

\* The state after one iteration of the topic loop.
TopicStep(t, outcome) ==
    /\ all_topics' = [all_topics EXCEPT ![topic_pos] = t]
    /\ sumLog' = Append(sumLog, outcome)
    /\ topic_pos' = topic_pos + 1
    /\ UNCHANGED <<gpc, articles, chunk_index, groupLog>>
    /\ UNCHANGED gOthers

\* if not relevant_articles: lines 199-201.
SummarizeNoArticles ==
    /\ InTopicLoop
    /\ WellShaped(CurrentTopic)
    /\ Len(RelevantArticles(CurrentTopic)) = 0
    /\ TopicStep(SetSummary(CurrentTopic, <<"No articles available for summarization.">>),
                 "no_articles")

\* The summarization call returns: lines 228-239.
SummarizeCallReturns ==
    /\ InTopicLoop
    /\ WellShaped(CurrentTopic)
    /\ Len(RelevantArticles(CurrentTopic)) > 0
    /\ \E content \in SummaryTexts :
         TopicStep(SetArticles(SetSummary(CurrentTopic, SummaryOf(CurrentTopic, content))),
                   IF Strip(content) = <<>> THEN "empty" ELSE "model")

\* SummarizeCallFails with an except branch that only logs.
SummarizeCallFailsSilently ==
    /\ InTopicLoop
    /\ WellShaped(CurrentTopic)
    /\ Len(RelevantArticles(CurrentTopic)) > 0
    /\ TopicStep(CurrentTopic, "call_failed")

\* The summarization call raises: lines 241-243.
SummarizeCallFails ==
    /\ InTopicLoop
    /\ WellShaped(CurrentTopic)
    /\ Len(RelevantArticles(CurrentTopic)) > 0
    /\ TopicStep(SetSummary(CurrentTopic, FallbackSummary(CurrentTopic)), "call_failed")

\* Lines 181 and 187 are outside every try: AttributeError leaves the function.
SummarizeRaises ==
    /\ InTopicLoop
    /\ ~WellShaped(CurrentTopic)
    /\ gpc' = "raised"
    /\ UNCHANGED <<articles, chunk_index, all_topics, topic_pos, groupLog, sumLog>>
    /\ UNCHANGED gOthers

\* return groups
GroupReturn ==
    /\ gpc = "summarize"
    /\ topic_pos > Len(all_topics)
    /\ gpc' = "returned"
    /\ UNCHANGED <<articles, chunk_index, all_topics, topic_pos, groupLog, sumLog>>
    /\ UNCHANGED gOthers

\* ========================================================= specifications
FilterNext == FilterCallReturns \/ FilterCallRaises \/ FilterReturn

FilterStart == FilterInit /\ GroupIdle /\ ReasoningIdle /\ HistoryIdle /\ MainIdle
    /\ SchedulerIdle /\ RequestIdle

FilterSpec == FilterStart /\ [][FilterNext]_vars

GroupNext ==
    \/ ReturnEmpty
    \/ GroupParsed
    \/ GroupSanitized
    \/ GroupUnparseable
    \/ GroupCallFails
    \/ SummarizeNoArticles
    \/ SummarizeCallReturns
    \/ SummarizeCallFails
    \/ SummarizeRaises
    \/ GroupReturn

GroupStart == GroupInit /\ FilterIdle /\ ReasoningIdle /\ HistoryIdle /\ MainIdle
    /\ SchedulerIdle /\ RequestIdle

GroupSpec == GroupStart /\ [][GroupNext]_vars

ReasoningNext ==
    \/ ReasoningCallReturns
    \/ FilterCallRaises
    \/ FilterReturn
    \/ ReasoningReturn

ReasoningStart == ReasoningInit /\ GroupIdle /\ HistoryIdle /\ MainIdle
    /\ SchedulerIdle /\ RequestIdle

ReasoningSpec == ReasoningStart /\ [][ReasoningNext]_vars

HistoryNext ==
    \/ Tick
    \/ \E r \in Runs : Load(r)
    \/ \E r \in Runs, list \in HistoryInputs : MarkAsPublished(r, list)
    \/ \E r \in Runs, list \in HistoryInputs : FilterPublished(r, list)

HistoryStart == HistoryInit /\ FilterIdle /\ GroupIdle /\ ReasoningIdle /\ MainIdle
    /\ SchedulerIdle /\ RequestIdle

HistorySpec == HistoryStart /\ [][HistoryNext]_vars

MainNext ==
    \/ MainNoKey
    \/ MainDashboardOnly
    \/ MainConfigChecked
    \/ MainFetch
    \/ MainFilter
    \/ MainGroup
    \/ MainGroupRaises
    \/ MainOutput

MainStart == MainInit /\ FilterIdle /\ GroupIdle /\ ReasoningIdle
    /\ SchedulerIdle /\ RequestIdle

MainSpec == MainStart /\ [][MainNext]_vars

SchedulerNext ==
    \/ ReadInterval
    \/ Launch
    \/ LaunchFails
    \/ ChildExits
    \/ RunReturns
    \/ RunInterrupted
    \/ SleepEnds
    \/ SleepInterrupted

SchedulerStart == SchedulerInit /\ FilterIdle /\ GroupIdle /\ ReasoningIdle
    /\ HistoryIdle /\ MainIdle /\ RequestIdle

SchedulerSpec == SchedulerStart /\ [][SchedulerNext]_vars

RequestNext ==
    \/ RequestStarts
    \/ RequestEnds
    \/ TopicWithoutCall
    \/ StageEnds

RequestStart == RequestInit /\ FilterIdle /\ GroupIdle /\ ReasoningIdle
    /\ HistoryIdle /\ MainIdle /\ SchedulerIdle

RequestSpec == RequestStart /\ [][RequestNext]_vars

\* ================================================================ claims
\* ---------------------------------------------------------- filter_stories
RECURSIVE IsSubsequence(_, _)
IsSubsequence(a, b) ==
    IF a = <<>> THEN TRUE
    ELSE IF b = <<>> THEN FALSE
    ELSE IF Head(a) = Head(b) THEN IsSubsequence(Tail(a), Tail(b))
    ELSE IsSubsequence(a, Tail(b))

\* C1: the result of filter_stories is a subsequence of the input: input
\* order, no article twice, nothing that is not in the input.
C1_OrderPreserved ==
    /\ IsSubsequence(filtered_articles, fArticles)
    /\ Cardinality(Range(filtered_articles)) = Len(filtered_articles)
    /\ Range(filtered_articles) \subseteq Range(fArticles)

\* Articles 1 and 3 of three passed, the call for article 2 raised.
C1_Witness ==
    /\ fpc = "done"
    /\ Len(fArticles) = 3
    /\ answers[2] = RAISED
    /\ filtered_articles = <<Article(1), Article(3)>>

\* C6: a call that raises does not make filter_stories raise, adds no
\* article, and every later article still gets its call.
C6_CallFailureAbsorbed ==
    /\ fpc # "raised"
    /\ \A i \in DOMAIN answers :
         answers[i] = RAISED => fArticles[i] \notin Range(filtered_articles)
    /\ fpc = "done" => Len(answers) = Len(fArticles)

\* The function returned although a call raised, and an article after the
\* failed call was classified and passed.
C6_Witness ==
    /\ fpc = "done"
    /\ \E i \in DOMAIN answers : \E j \in DOMAIN answers :
         /\ i < j
         /\ answers[i] = RAISED
         /\ fArticles[j] \in Range(filtered_articles)

\* For every answer text of the model: whether it contains "yes", in any
\* letter case.
SaysYes ==
    [a \in FilterAnswers \cup ReasoningAnswers |-> Contains(YesText, Lower(a))]

\* The call for article i returned an answer that contains "yes".
Affirmative(i) == answers[i] # RAISED /\ SaysYes[answers[i]]

HasYesMarker(text) == Contains(DecisionYes, Lower(text))
HasNoMarker(text) == Contains(DecisionNo, Lower(text))

\* For every answer text of the model: its only marker is "DECISION: No".
MarkedNoOnly ==
    [a \in FilterAnswers \cup ReasoningAnswers |-> HasNoMarker(a) /\ ~HasYesMarker(a)]
MarkedYes ==
    [a \in FilterAnswers \cup ReasoningAnswers |-> HasYesMarker(a)]
MarkedNo ==
    [a \in FilterAnswers \cup ReasoningAnswers |-> HasNoMarker(a)]

\* C11: an article is in the result only if its own call returned and the
\* answer was affirmative: it contains "yes" and, in verbose mode, is not
\* marked "DECISION: No" alone.  Articles whose call failed, whose answer was
\* not affirmative or that had no call yet are not in the result.
C11_FailsTowardExclusion ==
    \A i \in DOMAIN fArticles :
        fArticles[i] \in Range(filtered_articles) =>
            /\ i \in DOMAIN answers
            /\ answers[i] # RAISED
            /\ SaysYes[answers[i]]
            /\ verbose => ~MarkedNoOnly[answers[i]]

\* A verbose run that returned: one call failed, one answer was "No", one was
\* marked "DECISION: No"; only the article answered "Yes" is in the result.
C11_Witness ==
    /\ fpc = "done"
    /\ verbose
    /\ Len(fArticles) = 4
    /\ answers[1] = RAISED
    /\ HasNoMarker(answers[2])
    /\ ~Contains(YesText, Lower(answers[3]))
    /\ filtered_articles = <<Article(4)>>

\* ----------------------------------------------------- group_and_summarize
\* Topic t lists article a.
Lists(t, a) ==
    \E j \in DOMAIN TopicArticles(t) :
        TopicArticles(t)[j].title = a.title /\ TopicArticles(t)[j].link = a.link

\* C2: in the result every input article is listed by exactly one topic.
C2_NoSilentLoss ==
    gpc = "returned" =>
        \A i \in DOMAIN articles :
            Cardinality({k \in DOMAIN all_topics : Lists(all_topics[k], articles[i])}) = 1

\* C3: group_and_summarize never raises.
C3_NeverRaises == gpc # "raised"

\* The {title, link} pairs of the input articles from..to, in order.
ExpectedPairs(from, to) ==
    [i \in 1..(to - from + 1) |->
        [kind |-> "object", fields |-> {"title", "link"},
         title |-> articles[from + i - 1].title, link |-> articles[from + i - 1].link]]

\* C4: a chunk (1-based k) whose call raised or whose response stayed
\* unparseable contributes exactly one topic, "Articles Group k", listing the
\* articles of the chunk in order.
C4_FallbackStub ==
    \A k \in DOMAIN groupLog :
        groupLog[k].stage \in {"unparseable", "call_failed"} =>
            /\ groupLog[k].count = 1
            /\ LET t == all_topics[groupLog[k].first]
               IN  /\ t.kind = "object"
                   /\ TopicName(t) = <<"Articles Group ", ToString(k)>>
                   /\ TopicArticles(t) =
                        ExpectedPairs((k - 1) * ChunkSize + 1,
                                      Min(k * ChunkSize, Len(articles)))

\* 12 articles, the second call raised: the last topic is "Articles Group 2"
\* with articles 11 and 12, after a model grouping of the first chunk.
C4_Witness ==
    /\ gpc = "returned"
    /\ Len(articles) = 12
    /\ groupLog[1].stage = "parsed"
    /\ groupLog[2].stage = "call_failed"
    /\ LET t == all_topics[Len(all_topics)]
       IN  /\ t.topic = <<"Articles Group ", "2">>
           /\ Len(t.articles) = 2
           /\ t.articles[1].title = "title11"
           /\ t.articles[2].title = "title12"

\* C5: a topic with N >= 1 articles whose summarization call failed or
\* returned nothing has the summary "A collection of N articles about <topic>."
C5_FallbackSummaryExact ==
    \A k \in DOMAIN sumLog :
        (sumLog[k] \in {"call_failed", "empty"} /\ Len(TopicArticles(all_topics[k])) >= 1) =>
            /\ "summary" \in all_topics[k].fields
            /\ all_topics[k].summary =
                 <<"A collection of ", ToString(Len(TopicArticles(all_topics[k]))),
                   " articles about ">> \o TopicName(all_topics[k]) \o <<".">>

\* C7: no two topics of the result have the same name, compared after trimming.
C7_UniqueTopicNames ==
    gpc = "returned" =>
        \A a \in DOMAIN all_topics : \A b \in DOMAIN all_topics :
            a # b => Strip(TopicName(all_topics[a])) # Strip(TopicName(all_topics[b]))

\* C8: every topic the summarization pass has gone through, and so every
\* topic of the returned object, has a summary.
C8_SummaryAlwaysSet ==
    \A k \in DOMAIN all_topics :
        (k < topic_pos \/ gpc = "returned") => "summary" \in all_topics[k].fields

\* A returned object whose topics took all four paths.
C8_Witness ==
    /\ gpc = "returned"
    /\ {"model", "empty", "call_failed", "no_articles"} \subseteq Range(sumLog)
    /\ \A k \in DOMAIN all_topics : "summary" \in all_topics[k].fields

\* C9: in the result every article entry has exactly the fields title and link.
C9_OnlyTitleAndLink ==
    gpc = "returned" =>
        \A k \in DOMAIN all_topics : \A j \in DOMAIN TopicArticles(all_topics[k]) :
            TopicArticles(all_topics[k])[j].fields = {"title", "link"}

\* The least c with c * d >= n.
CeilDiv(n, d) == CHOOSE c \in 0..n : c * d >= n /\ (c = 0 \/ (c - 1) * d < n)

\* The input articles from..to, in input order.
InputArticles(from, to) == [j \in 1..(to - from + 1) |-> articles[from + j - 1]]

\* C12: ceil(n/10) grouping calls; the call of chunk k (1-based) lists the
\* input articles 10(k-1)+1 .. min(10k, n) in input order; the topics of a
\* chunk follow those of the chunk before.
C12_ChunksInOrder ==
    /\ Len(groupLog) = chunk_index
    /\ (gpc \in {"summarize", "returned", "raised"} /\ Len(articles) >= 1) =>
            /\ Len(groupLog) = CeilDiv(Len(articles), ChunkSize)
            /\ groupLog[Len(groupLog)].first + groupLog[Len(groupLog)].count - 1
                 = Len(all_topics)
    /\ \A k \in DOMAIN groupLog :
        /\ groupLog[k].chunk =
             InputArticles((k - 1) * ChunkSize + 1, Min(k * ChunkSize, Len(articles)))
        /\ groupLog[k].first =
             IF k = 1 THEN 1 ELSE groupLog[k - 1].first + groupLog[k - 1].count

\* 12 articles: two calls, for 10 and for 2 articles; the topic of the first
\* chunk comes before the topic of the second.
C12_Witness ==
    /\ gpc = "returned"
    /\ Len(articles) = 12
    /\ Len(groupLog) = 2
    /\ Len(groupLog[1].chunk) = 10
    /\ Len(groupLog[2].chunk) = 2
    /\ Len(all_topics) = 2
    /\ Lists(all_topics[1], articles[10])
    /\ Lists(all_topics[2], articles[11])

\* What a topic says, whatever the summarization pass has added to it.
StubOf(t) ==
    [kind |-> t.kind, topic |-> TopicName(t),
     pairs |-> [j \in DOMAIN TopicArticles(t) |->
                  <<TopicArticles(t)[j].title, TopicArticles(t)[j].link>>]]

StubsOf(topics) == [j \in DOMAIN topics |-> StubOf(topics[j])]

\* The topics chunk k (1-based) contributed.
Contributed(k) ==
    [j \in 1..groupLog[k].count |-> all_topics[groupLog[k].first + j - 1]]

\* The fallback stub of chunk k (1-based).
ExpectedFallback(k) ==
    [kind |-> "object", topic |-> <<"Articles Group ", ToString(k)>>,
     pairs |-> [j \in DOMAIN groupLog[k].chunk |->
                  <<groupLog[k].chunk[j].title, groupLog[k].chunk[j].link>>]]

\* C13: a response json.loads rejects contributes, after the sanitization
\* pass, either the topics recovered from the sanitized text or the one
\* fallback stub of its chunk; an exception leaves the function only once
\* every chunk has had its iteration.
C13_SanitizeOrFallback ==
    /\ gpc = "raised" => Len(groupLog) = CeilDiv(Len(articles), ChunkSize)
    /\ \A k \in DOMAIN groupLog :
        groupLog[k].stage \in {"sanitized", "unparseable"} =>
            \/ StubsOf(Contributed(k)) = <<ExpectedFallback(k)>>
            \/ /\ groupLog[k].stage = "sanitized"
               /\ \E v \in GroupSanitizedValues(groupLog[k].chunk) :
                    v.shape = "object" /\ StubsOf(Contributed(k)) = StubsOf(v.topics)

\* 12 articles: the first response is repaired into a topic "Quakes", the
\* second is repaired into a value that is no object and gives the fallback.
C13_Witness ==
    /\ gpc = "returned"
    /\ Len(articles) = 12
    /\ groupLog[1].stage = "sanitized"
    /\ groupLog[2].stage = "sanitized"
    /\ Len(all_topics) = 2
    /\ TopicName(all_topics[1]) = Quakes
    /\ TopicName(all_topics[2]) = <<"Articles Group ", "2">>

\* A topic as the merge sees it: its trimmed name and its {title, link} pairs.
Keyed(t) == [key |-> Strip(TopicName(t)), pairs |-> StubOf(t).pairs]

\* pairs followed by the pairs of more that are not already there.
RECURSIVE AppendNew(_, _)
AppendNew(pairs, more) ==
    IF more = <<>> THEN pairs
    ELSE AppendNew(IF Head(more) \in Range(pairs) THEN pairs ELSE Append(pairs, Head(more)),
                   Tail(more))

\* The merge of keyed stubs: a stub joins the first topic of its key, a new
\* key opens a new topic at the end.
RECURSIVE MergeStubs(_, _)
MergeStubs(acc, stubs) ==
    IF stubs = <<>> THEN acc
    ELSE LET s == Head(stubs)
             same == {i \in DOMAIN acc : acc[i].key = s.key}
         IN  IF same = {}
             THEN MergeStubs(Append(acc, [key |-> s.key, pairs |-> AppendNew(<<>>, s.pairs)]),
                             Tail(stubs))
             ELSE LET i == CHOOSE j \in same : TRUE
                  IN  MergeStubs([acc EXCEPT ![i].pairs = AppendNew(@, s.pairs)], Tail(stubs))

\* C14: the topics of the result are the accumulated stubs merged by trimmed
\* name: one topic per name in first-seen order, later stubs' articles
\* appended to it, no {title, link} pair twice in a topic.
C14_StubsMerged ==
    gpc = "returned" =>
        [k \in DOMAIN all_topics |-> Keyed(all_topics[k])]
            = MergeStubs(<<>>, [k \in DOMAIN all_topics |-> Keyed(all_topics[k])])

\* C25: filter_stories makes one model call per input article, in input
\* order, whatever the calls do: call number i asks about article i; a
\* failed call is not repeated and no article's call is left out.
C25_OneCallPerArticleInOrder ==
    /\ Len(fCalls) = fi
    /\ Len(fCalls) = Len(answers)
    /\ \A i \in DOMAIN fCalls : fCalls[i] = fArticles[i].title
    /\ fpc = "done" => fCalls = [i \in DOMAIN fArticles |-> fArticles[i].title]

\* Five articles, the calls of the second and the fourth fail.
C25_Witness ==
    /\ fpc = "done"
    /\ ~verbose
    /\ Len(fArticles) = 5
    /\ answers[2] = RAISED
    /\ answers[4] = RAISED
    /\ answers[3] # RAISED
    /\ fCalls = <<"title1", "title2", "title3", "title4", "title5">>
    /\ filtered_articles = <<Article(1), Article(5)>>

\* ---------------------------------------------------------- verbose mode
\* The article of iteration i is in the result (the links are distinct).
Included(i) == fArticles[i] \in Range(filtered_articles)

\* C16: in verbose mode an answer whose only marker is "DECISION: No"
\* excludes the article even with "yes" elsewhere in it, an answer marked
\* "DECISION: Yes" includes it, and an answer with no marker includes it iff
\* it contains "yes"; the markers are found in any letter case.
C16_MarkerDecides ==
    verbose =>
        \A i \in DOMAIN answers :
            answers[i] # RAISED =>
                /\ MarkedNoOnly[answers[i]] => ~Included(i)
                /\ MarkedYes[answers[i]] => Included(i)
                /\ (~MarkedNo[answers[i]] /\ ~MarkedYes[answers[i]]) =>
                       (Included(i) <=> SaysYes[answers[i]])

\* Four articles: "yes if. DECISION: No" excluded, "Not all. decision: YES"
\* included, "Yes." included, "No." excluded.
C16_Witness ==
    /\ rpc = "returned"
    /\ Len(fArticles) = 4
    /\ HasNoMarker(answers[1]) /\ ~HasYesMarker(answers[1])
    /\ Contains(YesText, Lower(answers[1]))
    /\ HasYesMarker(answers[2]) /\ ~HasNoMarker(answers[2])
    /\ answers[3] = <<"Y","e","s",".">>
    /\ answers[4] = <<"N","o",".">>
    /\ filtered_articles = <<Article(2), Article(3)>>

\* C17: filter_stories_with_reasoning returns a pair (filtered_articles,
\* all_decisions), all_decisions holding one record per input article.
C17_ReturnsPair ==
    rpc = "returned" =>
        /\ rresult.type = "tuple"
        /\ Len(rresult.items) = 2
        /\ rresult.items[1] = filtered_articles
        /\ Len(rresult.items[2]) = Len(fArticles)

\* ---------------------------------------------------------- ArticleHistory
\* The positions of the articles of hIn whose link is no key of the store h.
NotInStore(h) ==
    {i \in DOMAIN hIn : ~("link" \in hIn[i].fields /\ hIn[i].link \in Keys(h))
                        /\ ~("link" \notin hIn[i].fields /\ "" \in Keys(h))}

\* C18: filter_published returns exactly the input articles whose link is
\* not a key of the store, in input order; an article whose link is a key is
\* left out whatever its title.
C18_FilterPublished ==
    hLast = "filter" =>
        LET keep == NotInStore(hist[hWho])
        IN  /\ Len(hOut) = Cardinality(keep)
            /\ \A i \in keep :
                 hOut[Cardinality({j \in keep : j <= i})] = hIn[i]

\* The store holds link1 under "title1" only; of [empty link, link1 under
\* another title, no link, link2] the second article is dropped.
C18_Witness ==
    /\ hLast = "filter"
    /\ Keys(hist[hWho]) = {"link1"}
    /\ \E e \in hist[hWho].articles : e.url = "link1" /\ e.title = "title1"
    /\ hIn = <<PEmptyLink, P1Retitled, PNoLink, P2>>
    /\ hOut = <<PEmptyLink, PNoLink, P2>>

\* -------------------------------------------------------------------- main
Stages == {"fetch", "filter", "group"}
Sinks == {"console", "web_store", "slack", "email"}

InStore(list) == {i \in DOMAIN list : list[i].link \in Keys(hfile)}

\* C19: no article whose link is in the history store reaches the relevance
\* filter, the grouper or a sink, and a run that ends has written its
\* articles' links to the store.
C19_HistoryFilterInPipeline ==
    /\ "filter" \in Range(mStages) => InStore(mArticles) = {}
    /\ "group" \in Range(mStages) => InStore(mFiltered) = {}
    /\ Range(mStages) \cap Sinks # {} => InStore(mSummary) = {}
    /\ (mpc = "done" /\ Range(mStages) \cap Sinks # {}) =>
           \A i \in DOMAIN mSummary : mSummary[i].link \in Keys(hfile)

\* C20: with the API key or the relevance criterion missing, no stage runs
\* and nothing is delivered.
C20_ConfigErrorStopsRun ==
    (~cfg.api_key \/ ~cfg.filter_prompt) =>
        Range(mStages) \cap (Stages \cup Sinks) = {}

\* ----------------------------------------------------------- run_scheduler
\* The event after position p, or what the scheduler is doing when p is the
\* last event.
After(p) == IF p = Len(sEvents) THEN <<"now", spc>> ELSE <<"then", sEvents[p + 1]>>

C22_OneRunAtATime ==
    /\ sRunning <= 1
    /\ spc \in {"loop", "sleeping", "stopped"} => sRunning = 0
    /\ \A p \in DOMAIN sEvents :
        /\ (sEvents[p] \in {"run", "launch_error"} /\ p > 1) => sEvents[p - 1] = "slept"
        /\ sEvents[p] = "slept" =>
             p > 1 /\ sEvents[p - 1] \in {"ok", "failed", "launch_error"}
        /\ sEvents[p] \in {"ok", "failed"} => p > 1 /\ sEvents[p - 1] = "run"
        /\ sEvents[p] = "interrupt" => p = Len(sEvents) /\ spc = "stopped"

\* Two runs, then an interrupt during the second sleep.
C22_Witness ==
    /\ spc = "stopped"
    /\ sEvents = <<"run", "ok", "slept", "run", "failed", "interrupt">>

\* ------------------------------------------------------- requests of a run
\* C23: at most one model request is in flight; a request starts only when
\* the one before it has ended.
C23_OneRequestInFlight ==
    /\ qInflight <= 1
    /\ qInflight = 1 <=> qAt = "call"
    /\ \A p \in DOMAIN qEvents :
        qEvents[p][1] = "start" => (p = 1 \/ qEvents[p - 1][1] = "end")

\* A run with 11 filter calls, two grouping calls and a summarization call,
\* all ended.
C23_Witness ==
    /\ qpc = "done"
    /\ qInflight = 0
    /\ Cardinality({p \in DOMAIN qEvents : qEvents[p] = <<"start", "filter">>}) = 11
    /\ Cardinality({p \in DOMAIN qEvents : qEvents[p] = <<"start", "group">>}) = 2
    /\ qEvents[Len(qEvents)] = <<"end", "summarize">>

\* ------------------------------------------------------- the topic loop
\* The entries of topic t whose title is the title of no input article.
Unmatched(t) ==
    {j \in DOMAIN TopicArticles(t) :
        /\ TopicArticles(t)[j].kind = "object"
        /\ {"title", "link"} \subseteq TopicArticles(t)[j].fields
        /\ \A i \in DOMAIN articles : articles[i].title # TopicArticles(t)[j].title}

\* C24: a topic that lists an article whose title matches no input article
\* gets a placeholder record for it (the entry's title and link, the fixed
\* summary), has its summarization call and stays in the result with a
\* summary; no topic is dropped.
C24_PlaceholderKeepsTopic ==
    /\ gpc \in {"summarize", "returned"} =>
         Len(all_topics) =
            IF groupLog = <<>> THEN 0
            ELSE groupLog[Len(groupLog)].first + groupLog[Len(groupLog)].count - 1
    /\ \A k \in DOMAIN all_topics :
        ((k < topic_pos \/ gpc = "returned") /\ Unmatched(all_topics[k]) # {}) =>
            /\ k \in DOMAIN sumLog
            /\ sumLog[k] \in {"model", "empty", "call_failed"}
            /\ "summary" \in all_topics[k].fields
            /\ all_topics[k].summary # <<"No articles available for summarization.">>
            /\ \A j \in Unmatched(all_topics[k]) :
                 RelevantArticles(all_topics[k])[j] =
                    [title   |-> TopicArticles(all_topics[k])[j].title,
                     link    |-> TopicArticles(all_topics[k])[j].link,
                     summary |-> "No detailed summary available."]

\* One article; the response lists only "ghost title" under "Quakes"; the
\* topic is summarized by the model and returned.
C24_Witness ==
    /\ gpc = "returned"
    /\ Len(articles) = 1
    /\ Len(all_topics) = 1
    /\ TopicName(all_topics[1]) = Quakes
    /\ Unmatched(all_topics[1]) = {1}
    /\ sumLog = <<"model">>

\* ------------------------------------------- answers without a marker
\* C29: whatever the mode, verbose or not, the article of a call whose
\* answer carries neither "DECISION: Yes" nor "DECISION: No" is in the
\* result iff the answer contains "yes" in any letter case: the two modes
\* decide alike on such answers.
C29_SameDecisionWithoutMarker ==
    \A i \in DOMAIN answers :
        (answers[i] # RAISED /\ ~MarkedYes[answers[i]] /\ ~MarkedNo[answers[i]]) =>
            (Included(i) <=> SaysYes[answers[i]])

\* A verbose run over three articles whose answers "Yes", " No\n" and "Yes"
\* carry no marker: the first and the third are included, as they are in
\* non-verbose mode.
C29_Witness ==
    /\ verbose
    /\ fpc = "done"
    /\ answers = << <<"Y","e","s">>, <<" ","N","o","\n">>, <<"Y","e","s">> >>
    /\ filtered_articles = <<Article(1), Article(3)>>

\* --------------------------------------------------- the order of calls
\* C27: no summarization call is made before the chunk loop has made all
\* its grouping calls; the topic loop then takes the topics in order, and a
\* topic it has gone through had exactly one summarization call if it lists
\* an article, and none, with the summary "No articles available for
\* summarization.", if it lists no article. On return every topic was gone
\* through.
C27_GroupingThenOneCallPerTopic ==
    /\ gpc = "group" => sumLog = <<>>
    /\ sumLog # <<>> => Len(groupLog) = CeilDiv(Len(articles), ChunkSize)
    /\ Len(sumLog) = topic_pos - 1
    /\ gpc = "returned" => Len(sumLog) = Len(all_topics)
    /\ \A k \in DOMAIN sumLog :
         IF TopicArticles(all_topics[k]) = <<>>
         THEN /\ sumLog[k] = "no_articles"
              /\ all_topics[k].summary = <<"No articles available for summarization.">>
         ELSE sumLog[k] \in {"model", "empty", "call_failed"}

\* Two chunks, both grouping calls made; of the topics one lists no article
\* and one was summarized by a call.
C27_Witness ==
    /\ gpc = "returned"
    /\ Len(groupLog) = 2
    /\ \E j \in DOMAIN sumLog, k \in DOMAIN sumLog :
         /\ j < k
         /\ sumLog[j] = "no_articles" /\ TopicArticles(all_topics[j]) = <<>>
         /\ sumLog[k] = "model" /\ TopicArticles(all_topics[k]) # <<>>

\* ------------------------------------------- the history store: cleaning
\* The step is a mark_as_published call on object r.
MarkCall(r) ==
    /\ Len(hMarks') = Len(hMarks) + 1
    /\ hMarks'[Len(hMarks')].who = r

\* Entry e of the history before the call is still there after it, or its
\* link was marked again by the call.
StillRecorded(r, e) ==
    \/ e \in hist'[r].articles
    \/ \E n \in hist'[r].articles : n.url = e.url /\ n.timestamp = now

\* The file holds the history of object r after the step.
Persisted(r) ==
    /\ hfile'.state = "json"
    /\ hfile'.last_cleaned = hist'[r].last_cleaned
    /\ hfile'.articles = hist'[r].articles

\* C26: the cleaning that ends mark_as_published acts only when a full day
\* has passed since last_cleaned: it then removes the entries older than
\* now minus retention_days and no other, sets last_cleaned and leaves the
\* result in the file; otherwise no entry is removed and last_cleaned stays.
C26_CleanOldEntries ==
    [][\A r \in Runs : MarkCall(r) =>
          IF now - hist[r].last_cleaned >= DayTicks
          THEN /\ hist'[r].last_cleaned = now
               /\ \A e \in hist'[r].articles :
                     e.timestamp >= now - retention_days * DayTicks
               /\ \A e \in hist[r].articles :
                     e.timestamp > now - retention_days * DayTicks => StillRecorded(r, e)
               /\ Persisted(r)
          ELSE /\ hist'[r].last_cleaned = hist[r].last_cleaned
               /\ \A e \in hist[r].articles : StillRecorded(r, e)]_vars

\* ------------------------------------------ the history store: marking
\* The articles of list that have no link, or an empty one.
NoLink(list) == {i \in DOMAIN list : Get(list[i], "link") = ""}

\* C28: after mark_as_published(A) every link of A that is not empty is
\* published, and so is every link recorded before that is within the
\* retention period; no entry is ever recorded under the empty link, and
\* filter_published returns every article that has no link.
C28_MarkedArePublished ==
    /\ [](hLast = "mark" =>
            \A l \in hMarks[Len(hMarks)].links : l \in Keys(hist[hWho]))
    /\ [][\A r \in Runs : MarkCall(r) =>
            \A e \in hist[r].articles :
               e.timestamp > now - retention_days * DayTicks => e.url \in Keys(hist'[r])]_vars
    /\ [](/\ \A r \in Runs : "" \notin Keys(hist[r])
          /\ "" \notin Keys(hfile)
          /\ hLast = "filter" =>
               \A i \in NoLink(hIn) : \E j \in DOMAIN hOut : hOut[j] = hIn[i])

\* --------------------------------- the history store: two runs, one file
\* C30: two runs share the history file, each loads it, marks its articles
\* and saves. Once both have marked, with every write done and less than a
\* day gone (so that nothing was cleaned), the file holds every link that
\* either run marked.
C30_NoLostUpdate ==
    (/\ \A r \in Runs : \E i \in DOMAIN hMarks : hMarks[i].who = r
     /\ \A i \in DOMAIN hMarks : hMarks[i].saved
     /\ now < DayTicks)
    => \A i \in DOMAIN hMarks : hMarks[i].links \subseteq Keys(hfile)

====
